---- MODULE Spec2Model ----
(***************************************************************************)
(* Model of time_tracker.py: the TimeTrackerApp session state machine,     *)
(* its two-table SQLite store (rows visible on the connection and the      *)
(* durable prefix of them), the widgets the handlers read and write, and   *)
(* the queries behind the entry list, the totals and the CSV export.       *)
(*                                                                         *)
(* Time is the reading of time.time() in units of 1/TicksPerSec second.    *)
(* Environment: the clock is not set back while the program runs, two      *)
(* presses of Start/Stop are at least one clock unit apart, and the local  *)
(* UTC offset is constant (local calendar fields are div/mod of the        *)
(* reading).  Only the statements that write to the store, and the lookup  *)
(* of start_timer, are given a failure outcome.                            *)
(***************************************************************************)
EXTENDS Integers, Sequences, FiniteSets, TLC

\* ---------------------------------------------------------------- bounds
TicksPerSec == 2
MaxInstants == 5
MaxEntries == 2

\* ------------------------------------------------------------- constants
None == -1
EpochWeekday == 3
SecPerDay == 86400
DayLen == SecPerDay * TicksPerSec
FirstDay == 6 - EpochWeekday

NameOrder == <<"Beta", "Alpha">>   \* descending, so that a later name can sort first
Names == {NameOrder[i] : i \in 1..Len(NameOrder)}
Notes == {"", "wrote spec"}
\* the clock readings of the model: three times of day (midnight, a second
\* and one unit later, 125 s after that) of the days from the first Sunday on
Tods == <<0, TicksPerSec + 1, TicksPerSec + 1 + 125 * TicksPerSec>>
\* a day with two sessions, of 600 s and of 900 s, a unit apart
TodsDay == <<0, 1, 1 + 600 * TicksPerSec, 2 + 600 * TicksPerSec,
             2 + 1500 * TicksPerSec>>
Faults == {"none", "insert", "commit"}
\* after a failure SQLite keeps the transaction open or rolls it back
Rollbacks(fault) == IF fault = "none" THEN {FALSE} ELSE BOOLEAN

VARIABLES
  projects,           \* rows of table projects seen on the connection; id = index
  entries,            \* rows of table entries seen on the connection; id = index
  committed,          \* how many rows of each table are durable
  active_project_id,
  start_time,
  now,                \* last reading of the clock
  project_list,       \* Listbox contents
  tree,               \* Treeview rows
  timer_label,
  after_pending,      \* root.after(1000, update_timer) is scheduled
  tods,               \* the times of day at which the clock is read
  last                \* the handler that ran last and what it reported

vars == <<projects, entries, committed, active_project_id, start_time, now,
          project_list, tree, timer_label, after_pending, tods, last>>

InstantAt(k) == (FirstDay + k \div Len(tods)) * DayLen + tods[1 + (k % Len(tods))]
Instants == {InstantAt(k) : k \in 0..(MaxInstants - 1)}

session == <<active_project_id, start_time>>
store == <<projects, entries, committed>>
widgets == <<project_list, tree, timer_label>>

\* ------------------------------------------------------------ pure parts
Truthy(x) == x # None /\ x # 0

int_round(n) == (2 * n + TicksPerSec) \div (2 * TicksPerSec)
\* int(x) of Python for x = n / TicksPerSec: truncation toward zero
int(n) == IF n >= 0 THEN n \div TicksPerSec ELSE -((-n) \div TicksPerSec)

format_time(seconds) ==
  <<seconds \div 3600, (seconds % 3600) \div 60, seconds % 60>>

\* datetime.fromtimestamp(t) as stored by the sqlite3 adapter: local date and
\* time of day; TEXT comparison of two such values is the lexicographic one
fromtimestamp(t) == [day |-> t \div DayLen, tod |-> t % DayLen]
TextLeq(a, b) == a.day < b.day \/ (a.day = b.day /\ a.tod <= b.tod)
date(dt) == dt.day
weekday(day) == (day + EpochWeekday) % 7

Perms(n) == {p \in [1..n -> 1..n] : \A i, j \in 1..n : p[i] = p[j] => i = j}

ProjectId_next(name) ==
  IF \E i \in 1..Len(projects) : projects[i] = name
  THEN 1 + (CHOOSE i \in 1..Len(projects) : projects[i] = name)
  ELSE None
ProjectId(name) ==
  IF \E i \in 1..Len(projects) : projects[i] = name
  THEN CHOOSE i \in 1..Len(projects) : projects[i] = name
  ELSE None

\* entries JOIN projects ON entries.project_id = projects.id, in rowid order
JoinRow(e) == [name |-> projects[e.project_id], start_time |-> e.start_time,
               end_time |-> e.end_time, duration |-> e.duration, note |-> e.note]
Joined(es) == LET hit == SelectSeq(es, LAMBDA e : e.project_id \in 1..Len(projects))
              IN  [i \in 1..Len(hit) |-> JoinRow(hit[i])]

\* ... ORDER BY start_time DESC: every order of the joined rows in which
\* start_time does not increase (rows with equal start_time in any order)
ListEntries(es) ==
  LET rows == Joined(es)
      n == Len(rows)
  IN  {[i \in 1..n |-> rows[p[i]]] : p \in
         {q \in Perms(n) : \A i, j \in 1..n :
             i < j => TextLeq(rows[q[j]].start_time, rows[q[i]].start_time)}}

TreeRow(r) == <<r.name, r.start_time, r.end_time, format_time(r.duration), r.note>>
refresh_entries(listing) == [i \in 1..Len(listing) |-> TreeRow(listing[i])]

\* SELECT name FROM projects ORDER BY name
NameLess(x, y) ==
  \E i, j \in 1..Len(NameOrder) : NameOrder[i] = x /\ NameOrder[j] = y /\ i > j
RECURSIVE SortNames(_)
SortNames(S) ==
  IF S = {} THEN <<>>
  ELSE LET m == CHOOSE x \in S : \A y \in S : x = y \/ NameLess(x, y)
       IN  <<m>> \o SortNames(S \ {m})
refresh_projects(ps) == SortNames({ps[i] : i \in 1..Len(ps)})

\* SELECT SUM(duration) FROM entries WHERE ...: NULL when no row matches
Sum_head(s) == IF s = <<>> THEN 0 ELSE Head(s).duration
RECURSIVE Sum(_)
Sum(s) == IF s = <<>> THEN 0 ELSE Head(s).duration + Sum(Tail(s))
SumDuration(hit) == IF hit = <<>> THEN None ELSE Sum(hit)
\* ... WHERE date(start_time)=?
OnDate(es, day) == SelectSeq(es, LAMBDA e : date(e.start_time) = day)
SinceDate_strict(es, day) == SelectSeq(es, LAMBDA e : date(e.start_time) > day)
\* ... WHERE date(start_time)>=?
SinceDate(es, day) == SelectSeq(es, LAMBDA e : date(e.start_time) >= day)
Or0(x) == IF Truthy(x) THEN x ELSE 0

week_start_last7(today) == today - 6
week_start(today) == today - weekday(today)

\* SELECT ... FROM entries JOIN projects without ORDER BY: the rows come in
\* the order of the join's outer loop, entries by rowid or projects by rowid
RECURSIVE ByProject(_)
ByProject(k) ==
  IF k > Len(projects) THEN <<>>
  ELSE SelectSeq(entries, LAMBDA e : e.project_id = k) \o ByProject(k + 1)
ExportQuery(plan) == IF plan = "entries" THEN Joined(entries) ELSE Joined(ByProject(1))
Header == <<"Project", "Start", "End", "Duration (sec)", "Note">>
CsvRow(r) == <<r.name, r.start_time, r.end_time, r.duration, r.note>>

\* ----------------------------------------------------------------- state
InitAt(grid) ==
  /\ tods = grid
  /\ projects = <<>>
  /\ entries = <<>>
  /\ committed = [projects |-> 0, entries |-> 0]
  /\ active_project_id = None
  /\ start_time = None
  /\ now = InstantAt(0)
  /\ project_list = <<>>
  /\ tree = <<>>
  /\ timer_label = format_time(0)
  /\ after_pending = TRUE
  /\ last = [op |-> "init", arg |-> "", res |-> "ok", at |-> "", out |-> <<>>]

Init == InitAt(Tods)
InitDay == InitAt(TodsDay)

Report(op, arg, res, at, out) ==
  /\ last' = [op |-> op, arg |-> arg, res |-> res, at |-> at, out |-> out]
  /\ UNCHANGED tods

\* a failed statement or commit leaves the open transaction as it is, or
\* SQLite rolls it back: the rows that are not durable disappear
AfterFailure(ps, es, rb) ==
  /\ projects' = IF rb THEN SubSeq(ps, 1, committed.projects) ELSE ps
  /\ entries' = IF rb THEN SubSeq(es, 1, committed.entries) ELSE es
  /\ UNCHANGED committed

Commit(ps, es) ==
  /\ projects' = ps
  /\ entries' = es
  /\ committed' = [projects |-> Len(ps), entries |-> Len(es)]

\* --------------------------------------------------------------- actions
IntegrityError_never(name) == FALSE
\* name TEXT UNIQUE: the INSERT of a name the table has raises IntegrityError
IntegrityError(name) == ProjectId(name) # None

add_project(name, fault, rb) ==
  /\ UNCHANGED <<session, now, tree, timer_label, after_pending>>
  /\ IF name = ""
     THEN /\ Report("add_project", name, "Cancelled", "", <<>>)
          /\ UNCHANGED <<store, project_list>>
     ELSE IF fault = "insert"
     THEN /\ AfterFailure(projects, entries, rb)
          /\ Report("add_project", name, "StoreUnavailable", "insert", <<>>)
          /\ UNCHANGED project_list
     ELSE IF IntegrityError(name)
     THEN /\ Report("add_project", name, "DuplicateProject", "", <<>>)
          /\ UNCHANGED <<store, project_list>>
     ELSE IF fault = "commit"
     THEN /\ AfterFailure(Append(projects, name), entries, rb)
          /\ Report("add_project", name, "StoreUnavailable", "commit", <<>>)
          /\ UNCHANGED project_list
     ELSE /\ Commit(Append(projects, name), entries)
          /\ project_list' = refresh_projects(Append(projects, name))
          /\ Report("add_project", name, "ok", "", <<>>)

AlreadyRunning_off == FALSE
AlreadyRunning == Truthy(active_project_id)

start_returns_dirty(name, res, at) ==
  /\ Report("start", name, res, at, <<>>)
  /\ start_time' = now
  /\ UNCHANGED <<active_project_id, now>>
\* the returns of start_timer, and the exceptions that leave it
start_returns(name, res, at) ==
  /\ Report("start", name, res, at, <<>>)
  /\ UNCHANGED <<session, now>>

start_timer(sel, t, fault) ==
  /\ t > now
  /\ UNCHANGED <<store, widgets, after_pending>>
  /\ LET project_name == IF sel = 0 THEN "" ELSE project_list[sel]
     IN  IF AlreadyRunning THEN start_returns(project_name, "AlreadyRunning", "")
         ELSE IF sel = 0 THEN start_returns(project_name, "NoSelection", "")
         ELSE IF fault THEN start_returns(project_name, "StoreUnavailable", "select")
         ELSE IF ProjectId(project_name) = None
         THEN start_returns(project_name, "UnknownProject", "")
         ELSE /\ active_project_id' = ProjectId(project_name)
              /\ start_time' = t
              /\ now' = t
              /\ Report("start", project_name, "ok", "", <<>>)

NotRunning_off == FALSE
NotRunning == ~Truthy(active_project_id)

NewEntry_swapped(end, note) ==
  [project_id |-> active_project_id,
   start_time |-> fromtimestamp(end),
   end_time |-> fromtimestamp(start_time),
   duration |-> int(end - start_time), note |-> note]
NewEntry(end, note) ==
  [project_id |-> active_project_id,
   start_time |-> fromtimestamp(start_time),
   end_time |-> fromtimestamp(end),
   duration |-> int(end - start_time), note |-> note]

stop_raises_half ==
  /\ active_project_id' = None
  /\ UNCHANGED <<start_time, tree, timer_label>>
stop_raises_cleared ==
  /\ active_project_id' = None
  /\ start_time' = None
  /\ UNCHANGED <<tree, timer_label>>
\* execute or commit raises: the rest of stop_timer does not run
stop_raises == UNCHANGED <<session, tree, timer_label>>

stop_timer(note, t, fault, rb) ==
  /\ t > now
  /\ UNCHANGED <<project_list, after_pending>>
  /\ IF NotRunning
     THEN /\ Report("stop", note, "NotRunning", "", <<>>)
          /\ UNCHANGED <<session, store, now, tree, timer_label>>
     ELSE /\ Len(entries) < MaxEntries
          /\ now' = t
          /\ IF fault = "insert"
             THEN /\ AfterFailure(projects, entries, rb)
                  /\ Report("stop", note, "StoreUnavailable", "insert", <<>>)
                  /\ stop_raises
             ELSE IF fault = "commit"
             THEN /\ AfterFailure(projects, Append(entries, NewEntry(t, note)), rb)
                  /\ Report("stop", note, "StoreUnavailable", "commit", <<>>)
                  /\ stop_raises
             ELSE /\ Commit(projects, Append(entries, NewEntry(t, note)))
                  /\ active_project_id' = None
                  /\ start_time' = None
                  /\ timer_label' = format_time(0)
                  /\ \E l \in ListEntries(Append(entries, NewEntry(t, note))) :
                        tree' = refresh_entries(l)
                  /\ Report("stop", note, "ok", "", <<>>)

reschedule_forgotten == after_pending' = FALSE
\* self.root.after(1000, self.update_timer)
reschedule == after_pending' = TRUE

update_timer(t) ==
  /\ t >= now
  /\ after_pending
  /\ reschedule
  /\ UNCHANGED <<session, store, project_list, tree>>
  /\ Report("update_timer", "", "ok", "", <<>>)
  /\ IF Truthy(start_time)
     THEN /\ now' = t
          /\ timer_label' = format_time(int(t - start_time))
     ELSE UNCHANGED <<now, timer_label>>

show_totals(t) ==
  /\ t >= now
  /\ UNCHANGED <<session, store, widgets, after_pending>>
  /\ now' = t
  /\ LET today == date(fromtimestamp(t))
         daily == Or0(SumDuration(OnDate(entries, today)))
         weekly == Or0(SumDuration(SinceDate(entries, week_start(today))))
     IN  Report("show_totals", "", "ok", "",
                <<format_time(daily), format_time(weekly)>>)

export_csv(file, plan) ==
  /\ UNCHANGED <<session, store, widgets, now, after_pending>>
  /\ IF ~file
     THEN Report("export_csv", "", "Cancelled", "", <<>>)
     ELSE LET rows == ExportQuery(plan)
          IN  Report("export_csv", "", "ok", "",
                     <<Header>> \o [i \in 1..Len(rows) |-> CsvRow(rows[i])])

Next ==
  \/ \E name \in Names \cup {""}, fault \in Faults :
        \E rb \in Rollbacks(fault) : add_project(name, fault, rb)
  \/ \E sel \in 0..Len(project_list), t \in Instants, fault \in BOOLEAN :
        start_timer(sel, t, fault)
  \/ \E note \in Notes, t \in Instants, fault \in Faults :
        \E rb \in Rollbacks(fault) : stop_timer(note, t, fault, rb)
  \/ \E t \in Instants : update_timer(t)
  \/ \E t \in Instants : show_totals(t)
  \/ \E file \in BOOLEAN, plan \in {"entries", "projects"} : export_csv(file, plan)

Spec == Init /\ [][Next]_vars
\* the same program on a day whose clock readings allow two sessions
SpecDay == InitDay /\ [][Next]_vars

\* ---------------------------------------------------------------- claims
Instant(dt) == dt.day * DayLen + dt.tod
Floor(n) == n \div TicksPerSec
IsOp(op) == last'.op = op
Failed == last.res = "StoreUnavailable"

\* C1: a start issued while a session is active is rejected with
\* AlreadyRunning and leaves the active project and the start instant as
\* they were; a session that is active stays so until a stop succeeds, so no
\* two starts succeed without a successful stop between them.
C1_SingleActiveSession ==
  [][/\ (IsOp("start") /\ Truthy(active_project_id))
          => (last'.res = "AlreadyRunning" /\ UNCHANGED session)
     /\ (Truthy(active_project_id) /\ ~Truthy(active_project_id'))
          => (IsOp("stop") /\ last'.res = "ok")]_vars
C1_Witness ==
  /\ last.op = "start" /\ last.res = "AlreadyRunning"
  /\ Truthy(active_project_id) /\ Truthy(start_time)

\* C2: when the insert or the commit of stop fails, the active project and
\* the start instant after the stop are those before it.
C2_FailedStopKeepsSession ==
  [][(IsOp("stop") /\ last'.res = "StoreUnavailable") => UNCHANGED session]_vars
C2_Witness ==
  /\ last.op = "stop" /\ Failed /\ last.at = "commit"
  /\ Truthy(active_project_id) /\ Truthy(start_time)

\* C3: the store never holds two entries of one session (two durable rows
\* with the same project and the same start instant), also after a stop that
\* failed and was retried.
C3_AtMostOneEntryPerSession ==
  \A i, j \in 1..committed.entries :
     (/\ entries[i].project_id = entries[j].project_id
      /\ entries[i].start_time = entries[j].start_time) => i = j

\* C4: every entry has duration = floor(end - start) in whole seconds, and
\* duration >= 0, for the clock readings start and end of its session.
C4_DurationIsFlooredDifference ==
  \A i \in 1..Len(entries) :
     /\ entries[i].duration =
          Floor(Instant(entries[i].end_time) - Instant(entries[i].start_time))
     /\ entries[i].duration >= 0
C4_Witness ==
  \E i \in 1..Len(entries) :
     /\ (Instant(entries[i].end_time) - Instant(entries[i].start_time))
          % TicksPerSec # 0
     /\ entries[i].duration > 0

\* C5: a stop issued when no session is active reports NotRunning, creates no
\* entry and leaves the session and the store as they were.
C5_StopWithoutSession ==
  [][(IsOp("stop") /\ ~Truthy(active_project_id))
        => (last'.res = "NotRunning" /\ UNCHANGED <<session, store>>)]_vars
C5_Witness ==
  /\ last.op = "stop" /\ last.res = "NotRunning"
  /\ Len(entries) > 0 /\ Len(projects) > 0

C7_StopCreatesTheEntry ==
  [][(IsOp("stop") /\ last'.res = "ok")
        => /\ entries' = Append(entries,
                  [project_id |-> active_project_id,
                   start_time |-> fromtimestamp(start_time),
                   end_time |-> fromtimestamp(now'),
                   duration |-> Floor(now' - start_time),
                   note |-> last'.arg])
           /\ Instant(fromtimestamp(start_time)) = start_time
           /\ Instant(fromtimestamp(now')) = now'
           /\ active_project_id' = None
           /\ start_time' = None]_vars
C7_Witness ==
  /\ last.op = "stop" /\ last.res = "ok" /\ last.arg = "wrote spec"
  /\ entries # <<>>
  /\ entries[Len(entries)].duration = 125
  /\ entries[Len(entries)].note = "wrote spec"
  /\ projects[entries[Len(entries)].project_id] = "Alpha"
  /\ active_project_id = None

\* C8: list_entries returns every stored entry ordered by start instant
\* descending, and right after a successful stop its first element is the
\* entry just created.
C8_ListNewestFirst ==
  \A l \in ListEntries(entries) :
     /\ Len(l) = Len(entries)
     /\ \A i, j \in 1..Len(l) :
           i < j => Instant(l[i].start_time) >= Instant(l[j].start_time)
     /\ (last.op = "stop" /\ last.res = "ok")
           => l[1] = JoinRow(entries[Len(entries)])

\* C9: the rows export writes after the header are the rows of list_entries
\* (project name, start, end, duration, note), in the same order.
C9_ExportMatchesList ==
  (last.op = "export_csv" /\ last.res = "ok")
     => /\ Head(last.out) = Header
        /\ \E l \in ListEntries(entries) :
              Tail(last.out) = [i \in 1..Len(l) |-> CsvRow(l[i])]

\* C10: the weekly total shown is the sum of the durations of exactly the
\* entries whose start instant lies between Monday 00:00:00 of the week of
\* the query instant and the query instant.
MondayOf(t) ==
  DayLen * (CHOOSE d \in (t \div DayLen - 6)..(t \div DayLen) : weekday(d) = 0)
InThisWeek(e, t) ==
  MondayOf(t) <= Instant(e.start_time) /\ Instant(e.start_time) <= t
C10_ThisWeekTotal ==
  last.op = "show_totals"
     => last.out[2] =
          format_time(Sum(SelectSeq(entries, LAMBDA e : InThisWeek(e, now))))
C10_Witness ==
  /\ last.op = "show_totals"
  /\ \E i \in 1..Len(entries) :
        /\ Instant(entries[i].start_time) < MondayOf(now)
        /\ Instant(entries[i].start_time) > now - 7 * DayLen
        /\ entries[i].duration > 0
  /\ \E i \in 1..Len(entries) : InThisWeek(entries[i], now) /\ entries[i].duration > 0

\* C11: the daily total shown is the sum of the durations of exactly the
\* entries whose start instant falls on the calendar day of the query instant
\* (600 and 900 give 1500), and it is 0 when there is none, as on a fresh
\* store.
RECURSIVE Total(_, _)
Total(es, S) ==
  IF S = {} THEN 0
  ELSE LET i == CHOOSE k \in S : TRUE IN es[i].duration + Total(es, S \ {i})
Seconds(hms) == 3600 * hms[1] + 60 * hms[2] + hms[3]
StartedOnDayOf(es, t) ==
  {i \in 1..Len(es) : Instant(es[i].start_time) \div DayLen = t \div DayLen}
Durable == SubSeq(entries, 1, committed.entries)
StartedInWeekOf(es, t) == {i \in 1..Len(es) : InThisWeek(es[i], t)}
C12_TotalsOfCommittedOnly ==
  last.op = "show_totals"
     => /\ Seconds(last.out[1]) = Total(Durable, StartedOnDayOf(Durable, now))
        /\ Seconds(last.out[2]) = Total(Durable, StartedInWeekOf(Durable, now))

\* C13: add_project with a name the projects table already has adds no row;
\* when the store does not fail it reports DuplicateProject and leaves the
\* table and the project list as they were.  No name is twice in the table
\* or in the project list.
Once(seq) == \A i, j \in 1..Len(seq) : seq[i] = seq[j] => i = j
C13_DuplicateProjectRejected ==
  [][/\ (IsOp("add_project") /\ ProjectId(last'.arg) # None)
          => /\ last'.res \in {"DuplicateProject", "StoreUnavailable"}
             /\ Len(projects') <= Len(projects)
             /\ last'.res = "DuplicateProject"
                  => UNCHANGED <<projects, committed, project_list>>
     /\ Once(projects') /\ Once(project_list')
     /\ \A i \in 1..Len(project_list') :
           \E k \in 1..Len(projects') : projects'[k] = project_list'[i]]_vars
C13_Witness ==
  /\ last.op = "add_project" /\ last.res = "DuplicateProject"
  /\ \E i \in 1..Len(project_list) : project_list[i] = last.arg
  /\ Len(projects) = 2

\* C14: in every reachable state, also after a start or a stop that failed
\* part-way, the active project and the start instant are both set or both
\* absent.
C14_SessionFieldsTogether ==
  \/ active_project_id = None /\ start_time = None
  \/ Truthy(active_project_id) /\ Truthy(start_time)
C14_Witness ==
  /\ last.op = "stop" /\ Failed /\ last.at = "insert"
  /\ active_project_id # None /\ start_time # None

\* C15: a row enters the entries table only in a stop issued while a session
\* is running, and no step changes a field of a row of the table or removes
\* a row from it.
C15_EntriesAppendOnly ==
  [][/\ Len(entries') > Len(entries)
          => (IsOp("stop") /\ Truthy(active_project_id)
              /\ Len(entries') = Len(entries) + 1)
     /\ \A i \in 1..Len(entries) :
           i <= Len(entries') /\ entries'[i] = entries[i]]_vars

\* C16: a step of the periodic tick leaves the active project, the start
\* instant, the projects and the entries as they were, and the tick is
\* scheduled again after it, so it is scheduled in every reachable state.
C16_TickOnlyReads ==
  [][/\ IsOp("update_timer") => (UNCHANGED <<session, store>> /\ after_pending')
     /\ after_pending']_vars
C16_Witness ==
  /\ last.op = "update_timer" /\ after_pending
  /\ Truthy(start_time) /\ timer_label # <<0, 0, 0>>
  /\ Len(entries) > 0

\* C17: the project reference of every row of entries is the id of a row of
\* projects, and that of every durable row the id of a durable row.
C17_EntryProjectExists ==
  /\ \A i \in 1..Len(entries) : entries[i].project_id \in 1..Len(projects)
  /\ \A i \in 1..committed.entries :
        entries[i].project_id \in 1..committed.projects
C17_Witness ==
  /\ Len(entries) = 2 /\ Len(projects) = 2
  /\ entries[1].project_id # entries[2].project_id

\* C18: the daily total shown is at most the weekly total shown with it.
C18_TodayAtMostWeek ==
  last.op = "show_totals" => Seconds(last.out[1]) <= Seconds(last.out[2])
C18_Witness ==
  /\ last.op = "show_totals"
  /\ Seconds(last.out[1]) > 0
  /\ Len(entries) = 2
  /\ StartedOnDayOf(entries, now) # {1, 2}

====
